---- MODULE Spec2Model ----
(***************************************************************************)
(* Model of the product-catalog and payment handlers of                    *)
(* src/routes/ProductRoute.js (routes followed by the controller code).    *)
(*                                                                         *)
(* Text values (form fields, route parameters) are sequences of one-char   *)
(* strings, so that slugify and the string-to-number coercion are computed *)
(* character by character.  The JavaScript value undefined is the          *)
(* one-element sequence <<"undefined">>, which no text value equals.       *)
(***************************************************************************)
EXTENDS Integers, Sequences, FiniteSets, TLC

VARIABLES
    products,   \* the ProductModel collection: a set of documents
    nextId,     \* the next _id the store generates
    now,        \* the store's clock, read for createdAt
    req,        \* the request handled by the last step
    res,        \* what that request's handler sent (or that it sent nothing)
    before,     \* history: the collection as it was when that handler started
    upd,        \* concurrent UpdateProduct requests: position and locals
    pay,        \* payment requests: the sale sent to the gateway and its fate
    orders      \* the orderModel collection

vars == <<products, nextId, now, req, res, before, upd, pay, orders>>

----------------------------------------------------------------------------
(* Bounds of the model *)

\* documents the store ever creates in one behaviour
MaxProducts == 2
\* documents in the collection the paginated list is run against
MaxListed == 6
\* payment requests in one behaviour
MaxPayments == 2

----------------------------------------------------------------------------
(* JavaScript values *)

undefined == <<"undefined">>

\* !v for a text value: undefined and the empty string are falsy
Falsy(v) == v = undefined \/ v = <<>>

\* an absent upload (req.files.photo is undefined)
NoFile == [size |-> -1, type |-> "undefined", path |-> "undefined"]

\* a document that was not found
null == [_id |-> 0]

\* fs.readFileSync(path): the bytes of the uploaded temporary file
readFileSync(path) == <<"bytes of", path>>

----------------------------------------------------------------------------
(* slugify(name), default options: "-" and white space are separators,     *)
(* the result is trimmed and each run of separators becomes one "-".       *)

IsSep(ch) == ch = " " \/ ch = "-"

RECURSIVE DropLeadingSeps(_)
DropLeadingSeps(s) ==
    IF s = <<>> THEN <<>>
    ELSE IF IsSep(Head(s)) THEN DropLeadingSeps(Tail(s))
    ELSE s

RECURSIVE SlugTail(_)
\* s starts with a non-separator, or is empty
SlugTail(s) ==
    IF s = <<>> THEN <<>>
    ELSE IF IsSep(Head(s))
         THEN LET rest == DropLeadingSeps(s)
              IN  IF rest = <<>> THEN <<>> ELSE <<"-">> \o SlugTail(rest)
         ELSE <<Head(s)>> \o SlugTail(Tail(s))

slugify(name) == SlugTail(DropLeadingSeps(name))

----------------------------------------------------------------------------
(* Requests the handlers are driven with *)

NameVals     == {undefined, <<"a", " ", "b">>, <<" ", "c">>}
DescVals     == {<<>>, <<"d">>}
PriceVals    == {undefined, <<"1", "0">>}
CategoryVals == {undefined, <<"k", "1">>}
QuantityVals == {undefined, <<"2">>}
ShippingVals == {undefined, <<"1">>}

PhotoLimit == 1000000

PhotoVals ==
    { NoFile,
      [size |-> PhotoLimit,     type |-> "image/png",  path |-> "/tmp/u1"],
      [size |-> 1,              type |-> "image/jpeg", path |-> "/tmp/u2"],
      [size |-> PhotoLimit + 1, type |-> "image/png",  path |-> "/tmp/u3"] }

AllPresent(f) ==
    /\ ~Falsy(f.name) /\ ~Falsy(f.description) /\ ~Falsy(f.price)
    /\ ~Falsy(f.category) /\ ~Falsy(f.quantity)

\* req.fields: every pattern of missing fields (a missing description is the
\* empty string, the other missing fields are undefined), and two complete
\* forms that differ in name and in whether shipping is given
FieldVals ==
    { f \in [name : NameVals, description : DescVals, price : PriceVals,
             category : CategoryVals, quantity : QuantityVals,
             shipping : ShippingVals] :
        IF f.name = <<" ", "c">>
        THEN AllPresent(f) /\ f.shipping = <<"1">>
        ELSE f.shipping = undefined }

\* ids a request can name: 0 is an id the store never generated
ReqIds == 0 .. MaxProducts

SlugVals == {<<"a", "-", "b">>, <<"c">>, <<"z">>}

----------------------------------------------------------------------------
(* The store *)

findById(coll, id) ==
    IF \E p \in coll : p._id = id
    THEN CHOOSE p \in coll : p._id = id
    ELSE null

\* new ProductModel({...req.fields, slug}) with the photo set, as saved: the
\* store gives it the _id and stamps createdAt, the field the list handlers
\* sort on
NewProduct(id, t, fields, photo) ==
    [_id         |-> id,
     name        |-> fields.name,
     slug        |-> slugify(fields.name),
     description |-> fields.description,
     price       |-> fields.price,
     category    |-> fields.category,
     quantity    |-> fields.quantity,
     shipping    |-> fields.shipping,
     photo       |-> [data |-> readFileSync(photo.path), contentType |-> photo.type],
     createdAt   |-> t]

\* ApplyUpdate with the slug left as it was
ApplyUpdateStaleSlug(doc, fields) ==
    [doc EXCEPT
        !.name        = fields.name,
        !.description = fields.description,
        !.price       = fields.price,
        !.category    = fields.category,
        !.quantity    = fields.quantity,
        !.shipping    = IF fields.shipping = undefined THEN @ ELSE fields.shipping]

\* the document after $set of {...req.fields, slug: slugify(name)}: a field
\* that req.fields does not hold is left as it was
ApplyUpdate(doc, fields) ==
    [doc EXCEPT
        !.name        = fields.name,
        !.slug        = slugify(fields.name),
        !.description = fields.description,
        !.price       = fields.price,
        !.category    = fields.category,
        !.quantity    = fields.quantity,
        !.shipping    = IF fields.shipping = undefined THEN @ ELSE fields.shipping]

\* findByIdAndUpdate(id, update, {new: true}): the collection afterwards
findByIdAndUpdate(coll, id, fields) ==
    { IF p._id = id THEN ApplyUpdate(p, fields) ELSE p : p \in coll }

\* product.photo.data = ...; product.photo.contentType = ...
SetPhoto(doc, photo) ==
    IF photo # NoFile
    THEN [doc EXCEPT !.photo = [data |-> readFileSync(photo.path),
                                contentType |-> photo.type]]
    ELSE doc

\* product.save() of a document that came from a query: the store is sent
\* the paths modified since the query (here photo, when one was uploaded)
\* and every other path of the stored document stays as it is
save(coll, doc, photo) ==
    IF photo # NoFile
    THEN { IF p._id = doc._id THEN [p EXCEPT !.photo = doc.photo] ELSE p : p \in coll }
    ELSE coll

\* findByIdAndDelete that drops every document up to the id
findByIdAndDeleteUpTo(coll, id) == { p \in coll : p._id > id }

\* findByIdAndDelete(id): the collection afterwards
findByIdAndDelete(coll, id) == { p \in coll : p._id # id }

\* .select("-photo")
SelectNoPhoto(doc) ==
    IF doc = null THEN null
    ELSE [f \in (DOMAIN doc) \ {"photo"} |-> doc[f]]

----------------------------------------------------------------------------
(* Responses *)

\* the handler returned without sending anything
NoResponse == [status |-> 0, body |-> [none |-> TRUE]]

\* the handler threw; the exception went to its caller and it sent nothing
Thrown(e) == [status |-> 0, body |-> [thrown |-> e]]

Send(code, b) == [status |-> code, body |-> b]

\* new NotFoundError(message), as the catch block reads it (error.message)
NotFoundError(message) == [message |-> message]

----------------------------------------------------------------------------
(* The state after start-up: empty collections, nothing in flight *)

Init ==
    /\ products = {}
    /\ nextId = 1
    /\ now = 1
    /\ req = [op |-> "none"]
    /\ res = NoResponse
    /\ before = {}
    /\ upd = <<>>
    /\ pay = <<>>
    /\ orders = {}

----------------------------------------------------------------------------
(* Requests are dispatched one at a time: req and res are the objects of   *)
(* the request being served, and are gone once its cycle has ended.        *)

Idle == req.op = "none"

\* the request/response cycle ends
Finish ==
    /\ ~Idle
    /\ req' = [op |-> "none"]
    /\ res' = NoResponse
    /\ before' = {}
    /\ UNCHANGED <<products, nextId, now, upd, pay, orders>>

----------------------------------------------------------------------------
(* CreateProducts *)

\* the first check of lines 90-99 that fails, as the response it leads to;
\* Send(0, ...) stands for "all checks passed"
CreateChecks(fields, photo) ==
    IF Falsy(fields.name)
        THEN Send(500, [error |-> NotFoundError("Name is Required").message])
    ELSE IF Falsy(fields.description)
        THEN Send(500, [error |-> NotFoundError("Description is Required").message])
    ELSE IF Falsy(fields.price)
        THEN Send(500, [error |-> NotFoundError("Price is Required").message])
    ELSE IF Falsy(fields.category)
        THEN Send(500, [error |-> NotFoundError("Category is Required").message])
    ELSE IF Falsy(fields.quantity)
        THEN Send(500, [error |-> NotFoundError("Quantity is Required").message])
    ELSE IF photo = NoFile \/ photo.size > PhotoLimit
        THEN Send(400, [error |-> "Photo is Required and should be less than 1MB"])
    ELSE Send(0, [ok |-> TRUE])

CreateProducts(fields, photo) ==
    /\ Idle
    /\ req' = [op |-> "CreateProducts", fields |-> fields, photo |-> photo]
    /\ before' = products
    /\ LET failed == CreateChecks(fields, photo) IN
       IF failed.status # 0
       THEN /\ res' = failed
            /\ UNCHANGED <<products, nextId, now>>
       ELSE /\ nextId <= MaxProducts
            /\ LET product == NewProduct(nextId, now, fields, photo) IN
                 /\ now' = now + 1
                 /\ products' = products \cup {product}
                 /\ res' = Send(200, [success |-> TRUE,
                                      message |-> "Product Created Successfully",
                                      product |-> product])
            /\ nextId' = nextId + 1
    /\ UNCHANGED <<upd, pay, orders>>

----------------------------------------------------------------------------
(* DeleteProduct *)

DeleteProduct(id) ==
    /\ Idle
    /\ req' = [op |-> "DeleteProduct", id |-> id]
    /\ before' = products
    /\ products' = findByIdAndDelete(products, id)
    /\ res' = Send(200, [success  |-> TRUE,
                         message  |-> " Deleting the product successfully  ",
                         products |-> findById(products, id)])
    /\ UNCHANGED <<nextId, now, upd, pay, orders>>

----------------------------------------------------------------------------
(* getProduct *)

\* the CategoryModel collection, owned by other code and read by populate
categories == { [_id |-> <<"k", "1">>, name |-> <<"K">>, slug |-> <<"K">>] }

\* .populate("category"): the reference replaced by the document it names
populate(doc) ==
    IF doc = null THEN null
    ELSE [doc EXCEPT !.category =
            IF \E c \in categories : c._id = doc.category
            THEN CHOOSE c \in categories : c._id = doc.category
            ELSE null]

\* what findOne({slug}) can return: a document with that slug (the store
\* fixes no order among several), or null when there is none
findOne(coll, slug) ==
    IF \E p \in coll : p.slug = slug
    THEN { p \in coll : p.slug = slug }
    ELSE { null }

getProduct(slug) ==
    /\ Idle
    /\ req' = [op |-> "getProduct", slug |-> slug]
    /\ before' = products
    /\ \E found \in findOne(products, slug) :
         res' = Send(200, [success |-> TRUE,
                           message |-> " Single the  Product Fetched  ",
                           product |-> SelectNoPhoto(populate(found))])
    /\ UNCHANGED <<products, nextId, now, upd, pay, orders>>

----------------------------------------------------------------------------
(* UpdateProduct *)

\* UpdateChecks without the photo case
UpdateChecksNoPhotoCase(fields, photo) ==
    IF Falsy(fields.name)
        THEN Send(500, [error |-> "Name is Required"])
    ELSE IF Falsy(fields.description)
        THEN Send(500, [error |-> "Description is Required"])
    ELSE IF Falsy(fields.price)
        THEN Send(500, [error |-> "Price is Required"])
    ELSE IF Falsy(fields.category)
        THEN Send(500, [error |-> "Category is Required"])
    ELSE IF Falsy(fields.quantity)
        THEN Send(500, [error |-> "Quantity is Required"])
    ELSE Send(0, [ok |-> TRUE])

\* the first case of the switch of lines 171-186 that matches, as the
\* response it returns; Send(0, ...) stands for "no case matched"
UpdateChecks(fields, photo) ==
    IF Falsy(fields.name)
        THEN Send(500, [error |-> "Name is Required"])
    ELSE IF Falsy(fields.description)
        THEN Send(500, [error |-> "Description is Required"])
    ELSE IF Falsy(fields.price)
        THEN Send(500, [error |-> "Price is Required"])
    ELSE IF Falsy(fields.category)
        THEN Send(500, [error |-> "Category is Required"])
    ELSE IF Falsy(fields.quantity)
        THEN Send(500, [error |-> "Quantity is Required"])
    ELSE IF photo # NoFile /\ photo.size > PhotoLimit
        THEN Send(500, [error |-> "Photo is Required and should be less than 1MB"])
    ELSE Send(0, [ok |-> TRUE])

\* lines 196-208 on the document findByIdAndUpdate returned: with null,
\* product.photo (or product.save) is a TypeError and nothing is sent
UpdateFinish(coll, product, photo) ==
    IF product = null
    THEN [coll |-> coll, res |-> Thrown("TypeError")]
    ELSE [coll |-> save(coll, SetPhoto(product, photo), photo),
          res  |-> Send(201, [success |-> TRUE,
                              message |-> "Product Updated Successfully",
                              product |-> SetPhoto(product, photo)])]

UpdateProduct(id, fields, photo) ==
    /\ Idle
    /\ req' = [op |-> "UpdateProduct", id |-> id, fields |-> fields, photo |-> photo]
    /\ before' = products
    /\ LET failed == UpdateChecks(fields, photo) IN
       IF failed.status # 0
       THEN /\ res' = failed
            /\ UNCHANGED products
       ELSE LET updated == findByIdAndUpdate(products, id, fields)
                done    == UpdateFinish(updated, findById(updated, id), photo)
            IN  /\ products' = done.coll
                /\ res' = done.res
    /\ UNCHANGED <<nextId, now, upd, pay, orders>>

----------------------------------------------------------------------------
(* productPhotoContrller *)

productPhotoContrller(pid) ==
    /\ Idle
    /\ req' = [op |-> "productPhotoContrller", pid |-> pid]
    /\ before' = products
    /\ LET product == findById(products, pid) IN
       IF product # null
       THEN res' = Send(200, [contentType |-> product.photo.contentType,
                              data        |-> product.photo.data])
       ELSE res' = NoResponse
    /\ UNCHANGED <<products, nextId, now, upd, pay, orders>>

----------------------------------------------------------------------------
(* productList *)

perPage == 3

PageVals == {undefined, <<>>, <<"0">>, <<"1">>, <<"2">>, <<"3">>, <<"1", "0">>}

Digits == <<"0", "1", "2", "3", "4", "5", "6", "7", "8", "9">>

DigitVal(ch) == (CHOOSE i \in 1 .. 10 : Digits[i] = ch) - 1

RECURSIVE ToNumber(_)
\* the number a string of decimal digits is coerced to by "page - 1"
ToNumber(s) ==
    IF s = <<>> THEN 0
    ELSE 10 * ToNumber(SubSeq(s, 1, Len(s) - 1)) + DigitVal(s[Len(s)])

\* const page = req.params.page ? req.params.page : 1, as a number
PageNumber(page) == IF Falsy(page) THEN 1 ELSE ToNumber(page)

\* a skip that takes one page too many
SkipWholePages(page) == PageNumber(page) * perPage

\* (page - 1) * perPage
Skip(page) == (PageNumber(page) - 1) * perPage

RECURSIVE SortNewestFirst(_)
\* .sort({createdAt: -1})
SortNewestFirst(coll) ==
    IF coll = {} THEN <<>>
    ELSE LET newest == CHOOSE p \in coll : \A q \in coll : q.createdAt <= p.createdAt
         IN  <<newest>> \o SortNewestFirst(coll \ {newest})

Min(a, b) == IF a < b THEN a ELSE b

\* find({}).select("-photo").skip(n).limit(perPage).sort({createdAt: -1}):
\* the store sorts, then skips, then limits
ListPage(coll, n) ==
    LET sorted == SortNewestFirst(coll)
        page   == SubSeq(sorted, n + 1, Min(n + perPage, Len(sorted)))
    IN  [i \in 1 .. Len(page) |-> SelectNoPhoto(page[i])]

productList(page) ==
    /\ Idle
    /\ req' = [op |-> "productList", page |-> page]
    /\ before' = products
    /\ IF Skip(page) < 0
       THEN \* the store rejects a negative skip; the catch block answers
            res' = Send(400, [success |-> FALSE,
                              message |-> "error in per page ctrl"])
       ELSE res' = Send(200, [success  |-> TRUE,
                              products |-> ListPage(products, Skip(page))])
    /\ UNCHANGED <<products, nextId, now, upd, pay, orders>>

\* the form the listed documents were created from
ListedFields ==
    [name |-> <<"a", " ", "b">>, description |-> <<"d">>, price |-> <<"1", "0">>,
     category |-> <<"k", "1">>, quantity |-> <<"2">>, shipping |-> undefined]

ListedPhoto == [size |-> 1, type |-> "image/jpeg", path |-> "/tmp/u2"]

\* a collection left by MaxListed creations and any deletions
InitList ==
    /\ products \in SUBSET { NewProduct(i, i, ListedFields, ListedPhoto) :
                               i \in 1 .. MaxListed }
    /\ nextId = MaxListed + 1
    /\ now = MaxListed + 1
    /\ req = [op |-> "none"]
    /\ res = NoResponse
    /\ before = {}
    /\ upd = <<>>
    /\ pay = <<>>
    /\ orders = {}

NextList ==
    \/ \E page \in PageVals : productList(page)
    \/ Finish

SpecList == InitList /\ [][NextList]_vars

----------------------------------------------------------------------------
(* Two UpdateProduct requests in flight on the same product.  The handler  *)
(* reaches the store twice, at findByIdAndUpdate and at save; what lies    *)
(* between two awaits runs without interruption.                           *)

Updaters == {1, 2}

\* the product both requests name, as CreateProducts left it
SharedProduct == NewProduct(1, 1, ListedFields, ListedPhoto)

\* lines 167-194: validation, then the store applies findByIdAndUpdate
UpdateFind(u) ==
    /\ upd[u].pc = "start"
    /\ LET failed == UpdateChecks(upd[u].fields, upd[u].photo) IN
       IF failed.status # 0
       THEN /\ upd' = [upd EXCEPT ![u].pc = "done", ![u].res = failed]
            /\ UNCHANGED products
       ELSE LET updated == findByIdAndUpdate(products, upd[u].id, upd[u].fields) IN
            /\ products' = updated
            /\ upd' = [upd EXCEPT ![u].pc = "found",
                                  ![u].product = findById(updated, upd[u].id)]
    /\ UNCHANGED <<nextId, now, req, res, before, pay, orders>>

\* lines 196-208: the photo is set on the document in hand, the store
\* applies save, the response is sent
UpdateSave(u) ==
    /\ upd[u].pc = "found"
    /\ LET done == UpdateFinish(products, upd[u].product, upd[u].photo) IN
       /\ products' = done.coll
       /\ upd' = [upd EXCEPT ![u].pc = "done", ![u].res = done.res]
    /\ UNCHANGED <<nextId, now, req, res, before, pay, orders>>

InitConc ==
    /\ products = {SharedProduct}
    /\ nextId = 2
    /\ now = 2
    /\ req = [op |-> "none"]
    /\ res = NoResponse
    /\ before = {}
    /\ upd \in [Updaters -> [id : {1}, fields : FieldVals, photo : PhotoVals,
                             pc : {"start"}, product : {null}, res : {NoResponse}]]
    /\ pay = <<>>
    /\ orders = {}

NextConc ==
    \/ \E u \in Updaters : UpdateFind(u)
    \/ \E u \in Updaters : UpdateSave(u)

SpecConc == InitConc /\ [][NextConc]_vars

----------------------------------------------------------------------------
(* brainTreePaymentController *)

\* a cart line: product reference, captured price, quantity
Line(product, price, quantity) ==
    [product |-> product, price |-> price, quantity |-> quantity]

CartVals ==
    { <<>>,
      <<Line("p1", 10, 1), Line("p2", 25, 1)>>,
      <<Line("p1", 10, 3)>> }

NonceVals == {"nonce-1"}

\* req.body: {nonce, cart}, or a body that holds no cart
BodyVals ==
    [nonce : NonceVals, cart : CartVals] \cup [nonce : NonceVals]

\* req.user._id, set by requireSignIn
BuyerVals == {"u1", "u2"}

RECURSIVE Total(_)
\* let total = 0; cart.map((i) => { total += i.price; });
Total(cart) ==
    IF cart = <<>> THEN 0
    ELSE Total(SubSeq(cart, 1, Len(cart) - 1)) + cart[Len(cart)].price

\* lines 366-379 and 393-395: the total is computed and the sale is handed
\* to the gateway; without a cart, cart.map throws, the catch block logs the
\* TypeError and nothing is sent
brainTreePaymentController(body, buyer) ==
    /\ Len(pay) < MaxPayments
    /\ IF "cart" \notin DOMAIN body
       THEN pay' = Append(pay, [body |-> body, buyer |-> buyer,
                                amount |-> 0, state |-> "threw",
                                gateway |-> [none |-> TRUE], res |-> NoResponse])
       ELSE pay' = Append(pay, [body |-> body, buyer |-> buyer,
                                amount |-> Total(body.cart), state |-> "submitted",
                                gateway |-> [none |-> TRUE], res |-> NoResponse])
    /\ UNCHANGED <<products, nextId, now, req, res, before, upd, orders>>

\* what the gateway hands to the callback as (error, result): an error and no
\* result when the call itself failed; otherwise a result, whose success
\* flag tells whether the sale went through or was declined
GatewayAnswers(p) ==
    { [state |-> "failed",   error |-> [name |-> "gatewayError"], result |-> null],
      [state |-> "settled",  error |-> null,
       result |-> [success |-> TRUE, amount |-> p.amount]],
      [state |-> "declined", error |-> null,
       result |-> [success |-> FALSE, message |-> "Declined"]] }

\* lines 380-391, the callback: the outcomes it can have.  With a result,
\* "new orderModel" is evaluated; the module never imports or declares
\* orderModel (lines 66-75), so that is a ReferenceError: no order is built
\* or saved and res.json is not reached.  The exception leaves the callback
\* into the gateway library, which either lets it go (nothing is sent) or
\* hands it to the callback again as an error (it is sent with status 500).
Callback(p, error, result) ==
    IF result # null
    THEN { [orders |-> orders, res |-> Thrown("ReferenceError")],
           [orders |-> orders, res |-> Send(500, [name |-> "ReferenceError"])] }
    ELSE { [orders |-> orders, res |-> Send(500, error)] }

\* the gateway completes the sale i and runs the callback
SaleCallback(i) ==
    /\ pay[i].state = "submitted"
    /\ \E g \in GatewayAnswers(pay[i]) :
       \E out \in Callback(pay[i], g.error, g.result) :
          /\ pay' = [pay EXCEPT ![i].state = g.state,
                                ![i].gateway = g,
                                ![i].res = out.res]
          /\ orders' = out.orders
    /\ UNCHANGED <<products, nextId, now, req, res, before, upd>>

NextPay ==
    \/ \E body \in BodyVals, buyer \in BuyerVals :
            brainTreePaymentController(body, buyer)
    \/ \E i \in 1 .. Len(pay) : SaleCallback(i)

SpecPay == Init /\ [][NextPay]_vars

----------------------------------------------------------------------------
Next ==
    \/ \E fields \in FieldVals, photo \in PhotoVals : CreateProducts(fields, photo)
    \/ \E id \in ReqIds, fields \in FieldVals, photo \in PhotoVals :
            UpdateProduct(id, fields, photo)
    \/ \E id \in ReqIds : DeleteProduct(id)
    \/ \E slug \in SlugVals : getProduct(slug)
    \/ \E pid \in ReqIds : productPhotoContrller(pid)
    \/ Finish

Spec == Init /\ [][Next]_vars

----------------------------------------------------------------------------
(* Claims about the catalog handlers (specification Spec)                  *)

\* the message that names the first missing field, in the order
\* name, description, price, category, quantity, photo
FirstMissingMessage(f, photo) ==
    IF Falsy(f.name) THEN "Name is Required"
    ELSE IF Falsy(f.description) THEN "Description is Required"
    ELSE IF Falsy(f.price) THEN "Price is Required"
    ELSE IF Falsy(f.category) THEN "Category is Required"
    ELSE IF Falsy(f.quantity) THEN "Quantity is Required"
    ELSE "Photo is Required and should be less than 1MB"

SomethingMissing(f, photo) == ~AllPresent(f) \/ photo = NoFile

\* C1: a create request with at least one of name, description, price,
\* category, quantity, photo missing is answered with a 400-class status
\* and the message naming the first missing field, and persists nothing.
C1_CreateMissingFieldIs400 ==
    (req.op = "CreateProducts" /\ SomethingMissing(req.fields, req.photo))
        => /\ res.status \in 400 .. 499
           /\ res.body = [error |-> FirstMissingMessage(req.fields, req.photo)]
           /\ products = before

\* C4: a create or update request whose photo is larger than 1,000,000
\* bytes ends in an error response and leaves the collection as it was,
\* whatever the other fields are.
C4_OversizedPhotoRejected ==
    (/\ req.op \in {"CreateProducts", "UpdateProduct"}
     /\ req.photo # NoFile
     /\ req.photo.size > 1000000)
        => /\ res.status >= 400
           /\ products = before

\* C4 witness: an update of an existing product, all fields given, with an
\* oversized photo, was rejected.
C4_Witness ==
    /\ req.op = "UpdateProduct"
    /\ AllPresent(req.fields)
    /\ req.photo # NoFile /\ req.photo.size > 1000000
    /\ \E p \in before : p._id = req.id
    /\ res.status >= 400
    /\ products = before

\* an update request that passes the field and photo validation
ValidUpdate ==
    /\ req.op = "UpdateProduct"
    /\ AllPresent(req.fields)
    /\ (req.photo = NoFile \/ req.photo.size <= 1000000)

\* the stored document is the old one with the incoming fields, the slug of
\* the new name and, when a photo came with the request, that photo
UpdatedAsRequested(old, new) ==
    /\ new._id = old._id
    /\ new.createdAt = old.createdAt
    /\ new.name = req.fields.name
    /\ new.description = req.fields.description
    /\ new.price = req.fields.price
    /\ new.category = req.fields.category
    /\ new.quantity = req.fields.quantity
    /\ new.shipping = (IF req.fields.shipping = undefined
                       THEN old.shipping ELSE req.fields.shipping)
    /\ new.slug = slugify(req.fields.name)
    /\ new.photo = (IF req.photo = NoFile THEN old.photo
                    ELSE [data |-> readFileSync(req.photo.path),
                          contentType |-> req.photo.type])

UpdateOfExisting ==
    \A old \in before : old._id = req.id =>
        /\ res.status = 201
        /\ \E new \in products :
             /\ UpdatedAsRequested(old, new)
             /\ res.body.product = new
             /\ products = (before \ {old}) \cup {new}

C5_WitnessRenamed ==
    /\ ValidUpdate
    /\ \E old \in before, new \in products :
         old._id = req.id /\ new._id = req.id /\ new.slug # old.slug

\* C6: get by slug returns one product with that slug when there is one,
\* and answers NotFound (404), not success, when there is none.
C6_GetBySlugNotFound ==
    req.op = "getProduct" =>
        IF \E p \in products : p.slug = req.slug
        THEN /\ res.status = 200
             /\ \E p \in products :
                  p.slug = req.slug /\ res.body.product._id = p._id
        ELSE res.status = 404

\* C7: a photo fetch always ends in a response: for an id that resolves to
\* no product the handler has answered (NotFound or empty) when it returns;
\* for a product with a photo it sends the stored bytes and content type;
\* the collection is unchanged.
C7_PhotoFetchAnswered ==
    req.op = "productPhotoContrller" =>
        /\ res # NoResponse
        /\ \A p \in products : p._id = req.pid =>
             res = Send(200, [contentType |-> p.photo.contentType,
                              data |-> p.photo.data])
        /\ products = before

\* C8: delete answers with success and the record as it was before the
\* deletion, or null when the id resolves to nothing; afterwards no record
\* has that id and every other record is as it was.
C8_DeleteReturnsAndFrames ==
    req.op = "DeleteProduct" =>
        /\ res.status = 200
        /\ res.body.success = TRUE
        /\ IF \E p \in before : p._id = req.id
           THEN res.body.products \in before /\ res.body.products._id = req.id
           ELSE res.body.products = null
        /\ ~ \E p \in products : p._id = req.id
        /\ \A p \in before : p._id # req.id => p \in products
        /\ products \subseteq before

\* C8 witness: one of two stored products was deleted and returned.
C8_Witness ==
    /\ req.op = "DeleteProduct"
    /\ Cardinality(before) = 2
    /\ Cardinality(products) = 1
    /\ res.body.products \in before \ products

\* a delete of an id that resolves to nothing, on a non-empty collection,
\* succeeded with null
C8_WitnessAbsent ==
    /\ req.op = "DeleteProduct"
    /\ before # {}
    /\ ~ \E p \in before : p._id = req.id
    /\ res.status = 200 /\ res.body.products = null

----------------------------------------------------------------------------
(* Claims about the paginated list (specification SpecList)                *)

\* the page number a request's page parameter stands for
RequestedPage ==
    CASE req.page = undefined    -> 1
      [] req.page = <<>>         -> 1
      [] req.page = <<"1">>      -> 1
      [] req.page = <<"2">>      -> 2
      [] req.page = <<"3">>      -> 3
      [] req.page = <<"1", "0">> -> 10
      [] OTHER                   -> 0

\* the number of stored products created later than d
NewerThan(d) == Cardinality({ q \in products : q.createdAt > d.createdAt })

\* C9: the list for page p >= 1 (an absent or empty page counting as 1)
\* holds at most 3 products, exactly those ranked 3(p-1)+1 .. 3p by
\* descending creation time, in that order and without their photo, and the
\* collection is unchanged.
C9_PageHoldsItsRanks ==
    (req.op = "productList" /\ RequestedPage >= 1) =>
        LET p     == RequestedPage
            n     == Cardinality(products)
            first == 3 * (p - 1) + 1
            list  == res.body.products
        IN  /\ res.status = 200
            /\ Len(list) <= 3
            /\ Len(list) = (IF n < first THEN 0
                            ELSE IF n >= 3 * p THEN 3 ELSE n - first + 1)
            /\ \A i \in 1 .. Len(list) :
                 \E q \in products :
                    /\ q._id = list[i]._id
                    /\ NewerThan(q) = first + i - 2
                    /\ "photo" \notin DOMAIN list[i]
                    /\ \A f \in DOMAIN list[i] : list[i][f] = q[f]
            /\ products = before

\* C9 witness: page 2 of a collection of at least 6 products was listed
\* and holds 3 of them.
C9_Witness ==
    /\ req.op = "productList"
    /\ req.page = <<"2">>
    /\ Cardinality(products) >= 6
    /\ res.status = 200
    /\ Len(res.body.products) = 3

----------------------------------------------------------------------------
(* Claims about concurrent updates (specification SpecConc)                *)

AllDone == \A u \in Updaters : upd[u].pc = "done"

\* the stored record is what request u wrote: its fields, the slug of its
\* name and its photo
WrittenBy(doc, u) ==
    /\ doc.name = upd[u].fields.name
    /\ doc.slug = slugify(upd[u].fields.name)
    /\ doc.description = upd[u].fields.description
    /\ doc.price = upd[u].fields.price
    /\ doc.category = upd[u].fields.category
    /\ doc.quantity = upd[u].fields.quantity
    /\ doc.photo = [data |-> readFileSync(upd[u].photo.path),
                    contentType |-> upd[u].photo.type]

\* C10: when two updates of one product, each valid and each carrying a
\* photo, have both completed, the stored record's fields, slug and photo
\* are all those of one of the two requests, never a mix.
C10_LastWriterWins ==
    (/\ AllDone
     /\ \A u \in Updaters : upd[u].res.status = 201 /\ upd[u].photo # NoFile)
        => \A doc \in products : \E u \in Updaters : WrittenBy(doc, u)

----------------------------------------------------------------------------
(* Claims about the payment handler (specification SpecPay)                *)

\* the sum of the cart's line prices, quantities left out
PriceSum(cart) ==
    IF cart = <<>> THEN 0
    ELSE IF Len(cart) = 1 THEN cart[1].price
    ELSE cart[1].price + cart[2].price

\* what the gateway reported for a sale that did not go through
GatewayError(p) ==
    IF p.state = "failed" THEN p.gateway.error ELSE p.gateway.result

\* C2: every stored order belongs to a payment whose sale the gateway
\* confirmed, and a payment whose sale failed (the call failed, or the sale
\* was declined) is answered with the gateway's error.
C2_OrderOnlyOnConfirmedSale ==
    /\ \A o \in orders : \E i \in 1 .. Len(pay) :
          /\ pay[i].state = "settled"
          /\ o.products = pay[i].body.cart
    /\ \A i \in 1 .. Len(pay) :
          pay[i].state \in {"failed", "declined"}
             => pay[i].res = Send(500, GatewayError(pay[i]))

\* C3: the gateway is charged the sum of the cart's line prices, and when
\* it confirms the sale exactly one order with that cart, the gateway's
\* result and the buyer is stored and one success response is sent.
C3_ChargeAndSingleOrder ==
    \A i \in 1 .. Len(pay) :
        /\ pay[i].state # "threw" => pay[i].amount = PriceSum(pay[i].body.cart)
        /\ pay[i].state = "settled" =>
              /\ [products |-> pay[i].body.cart, payment |-> pay[i].gateway.result,
                  buyer |-> pay[i].buyer] \in orders
              /\ pay[i].res = Send(200, [ok |-> TRUE])

====
